---------------------------- MODULE Spec2Model ----------------------------
(***************************************************************************)
(* coverage_conditional_plugin: the configurer that reads the option       *)
(* coverage_conditional_plugin:rules, evaluates each rule's expression     *)
(* with eval() and appends the rule's marker to report:exclude_lines.      *)
(*                                                                         *)
(* Text is modelled character by character: a Python str is a sequence of  *)
(* one-character strings, so that splitlines, rsplit, strip and the slice  *)
(* [1:-1] are computed as the code computes them.                          *)
(***************************************************************************)
EXTENDS Integers, Sequences, FiniteSets, TLC

(***************************************************************************)
(* Bounds of the model.                                                    *)
(***************************************************************************)
\* The most lines a rules text of the model has.
MaxRules == 3

(***************************************************************************)
(* Characters.                                                             *)
(***************************************************************************)
NL == "\n"
\* The characters str.strip() removes, among those of the model's alphabet.
Whitespace == {" ", "\t"}
Digits == {"0", "1", "2", "3", "4", "5", "6", "7", "8", "9"}
Letters ==
    {"a", "b", "c", "d", "e", "f", "g", "h", "i", "j", "k", "l", "m", "n",
     "o", "p", "q", "r", "s", "t", "u", "v", "w", "x", "y", "z",
     "C", "F", "I", "N", "T"}
NameStart == Letters \cup {"_"}
NameChars == NameStart \cup Digits
Quotes == {"'", "\""}

(***************************************************************************)
(* str methods used by configure and _process_rule.                        *)
(***************************************************************************)
\* The position of the first c in s at or after i, 0 when there is none.
RECURSIVE IndexFrom(_, _, _)
IndexFrom(s, c, i) ==
    IF i > Len(s) THEN 0
    ELSE IF s[i] = c THEN i
    ELSE IndexFrom(s, c, i + 1)

\* The position of the last c in s at or before i, 0 when there is none.
RECURSIVE RIndexFrom(_, _, _)
RIndexFrom(s, c, i) ==
    IF i < 1 THEN 0
    ELSE IF s[i] = c THEN i
    ELSE RIndexFrom(s, c, i - 1)

\* str.splitlines(): the lines of s, without their line breaks; a line break
\* at the very end opens no further line, and "" has no lines.
RECURSIVE SplitLines(_)
SplitLines(s) ==
    IF s = <<>> THEN <<>>
    ELSE LET i == IndexFrom(s, NL, 1)
         IN  IF i = 0 THEN <<s>>
             ELSE <<SubSeq(s, 1, i - 1)>> \o SplitLines(SubSeq(s, i + 1, Len(s)))

\* bool(line) of a str: true unless it has no characters.
Truthy_str(line) == line # <<>>

\* filter(bool, lines)
FilterBool(lines) == SelectSeq(lines, Truthy_str)

\* Faulty variant, str.split(':', 1): the split at the leftmost colon.
RSplitFirstColon(rule) ==
    LET k == IndexFrom(rule, ":", 1)
    IN  IF k = 0 THEN <<rule>>
        ELSE <<SubSeq(rule, 1, k - 1), SubSeq(rule, k + 1, Len(rule))>>

\* str.rsplit(':', 1): at most one split, at the rightmost colon.
RSplit(rule) ==
    LET k == RIndexFrom(rule, ":", Len(rule))
    IN  IF k = 0 THEN <<rule>>
        ELSE <<SubSeq(rule, 1, k - 1), SubSeq(rule, k + 1, Len(rule))>>

RECURSIVE LStrip(_)
LStrip(s) ==
    IF s # <<>> /\ Head(s) \in Whitespace THEN LStrip(Tail(s)) ELSE s

RECURSIVE RStrip(_)
RStrip(s) ==
    IF s # <<>> /\ s[Len(s)] \in Whitespace
    THEN RStrip(SubSeq(s, 1, Len(s) - 1))
    ELSE s

\* str.strip()
Strip(s) == RStrip(LStrip(s))

\* code[1:-1]: everything but the first and the last character; empty for a
\* str of fewer than three characters.
Slice_1_m1(code) == SubSeq(code, 2, Len(code) - 1)

(***************************************************************************)
(* eval(): the tokens of an expression.  The model covers a sublanguage of *)
(* Python expressions: names, decimal integers, string literals without    *)
(* escapes, True/False/None, calls of at most one argument, attribute      *)
(* access, + and one ==.  A source outside it yields "unm" (unmodelled),   *)
(* never a guessed result.                                                 *)
(***************************************************************************)
\* The last position j >= i with s[i..j] all in set (i - 1 when s[i] is not).
RECURSIVE RunEnd(_, _, _)
RunEnd(s, i, set) ==
    IF i <= Len(s) /\ s[i] \in set THEN RunEnd(s, i + 1, set) ELSE i - 1

Tk(k, s) == [k |-> k, s |-> s]

RECURSIVE Tokenize(_, _)
Tokenize(s, i) ==
    IF i > Len(s) THEN <<>>
    ELSE LET c == s[i] IN
    IF c \in Whitespace THEN Tokenize(s, i + 1)
    ELSE IF c \in NameStart THEN
        LET j == RunEnd(s, i, NameChars)
        IN  IF j < Len(s) /\ s[j + 1] \in Quotes
            THEN <<Tk("unm", <<>>)>>      \* a string prefix: b'..', r'..'
            ELSE <<Tk("name", SubSeq(s, i, j))>> \o Tokenize(s, j + 1)
    ELSE IF c \in Digits THEN
        LET j == RunEnd(s, i, Digits)
        IN  IF \/ (j < Len(s) /\ s[j + 1] \in NameStart \cup {"."})
               \/ (c = "0" /\ j > i)
            THEN <<Tk("unm", <<>>)>>      \* floats, 0x.., 1e3, 007, 1if..
            ELSE <<Tk("num", SubSeq(s, i, j))>> \o Tokenize(s, j + 1)
    ELSE IF c \in Quotes THEN
        LET j == IndexFrom(s, c, i + 1)
        IN  IF j = 0
            THEN <<Tk("err", <<>>)>>      \* unterminated string literal
            ELSE IF c = "'" /\ j = i + 1 /\ j < Len(s) /\ s[j + 1] = c
            THEN <<Tk("unm", <<>>)>>      \* a triple-quoted string
            ELSE IF c = "\"" /\ j = i + 1 /\ j < Len(s) /\ s[j + 1] = c
            THEN <<Tk("unm", <<>>)>>
            ELSE <<Tk("str", SubSeq(s, i + 1, j - 1))>> \o Tokenize(s, j + 1)
    ELSE IF c = "=" THEN
        IF i < Len(s) /\ s[i + 1] = "="
        THEN <<Tk("op", <<"=", "=">>)>> \o Tokenize(s, i + 2)
        ELSE <<Tk("unm", <<>>)>>
    ELSE IF c \in {"(", ")", ".", "+"} THEN
        <<Tk("op", <<c>>)>> \o Tokenize(s, i + 1)
    ELSE <<Tk("unm", <<>>)>>

(***************************************************************************)
(* eval(): the parser.  A parse result is [st, ast, pos]: st is "ok",      *)
(* "syntax" (Python raises SyntaxError) or "unm"; pos is the next token.   *)
(***************************************************************************)
Keywords ==
    {<<"a", "n", "d">>, <<"o", "r">>, <<"n", "o", "t">>, <<"i", "n">>,
     <<"i", "s">>, <<"i", "f">>, <<"e", "l", "s", "e">>, <<"f", "o", "r">>,
     <<"l", "a", "m", "b", "d", "a">>, <<"a", "w", "a", "i", "t">>,
     <<"y", "i", "e", "l", "d">>}

K_True == <<"T", "r", "u", "e">>
K_False == <<"F", "a", "l", "s", "e">>
K_None == <<"N", "o", "n", "e">>

NoAst == [n |-> "none"]
PR(st, ast, pos) == [st |-> st, ast |-> ast, pos |-> pos]
IsOp(ts, p, op) == p <= Len(ts) /\ ts[p].k = "op" /\ ts[p].s = op

DigitVal(c) ==
    CASE c = "0" -> 0 [] c = "1" -> 1 [] c = "2" -> 2 [] c = "3" -> 3
      [] c = "4" -> 4 [] c = "5" -> 5 [] c = "6" -> 6 [] c = "7" -> 7
      [] c = "8" -> 8 [] c = "9" -> 9

RECURSIVE IntOf(_)
IntOf(ds) ==
    IF ds = <<>> THEN 0
    ELSE 10 * IntOf(SubSeq(ds, 1, Len(ds) - 1)) + DigitVal(ds[Len(ds)])

RECURSIVE ParseExpr(_, _)
RECURSIVE ParseArithRest(_, _, _)
RECURSIVE ParseTrailers(_, _, _)

ParseAtom(ts, p) ==
    IF p > Len(ts) THEN PR("syntax", NoAst, p)     \* the source ends too early
    ELSE LET t == ts[p] IN
    IF t.k = "name" THEN
        IF t.s \in Keywords THEN PR("unm", NoAst, p)
        ELSE IF t.s = K_True THEN PR("ok", [n |-> "bool", v |-> TRUE], p + 1)
        ELSE IF t.s = K_False THEN PR("ok", [n |-> "bool", v |-> FALSE], p + 1)
        ELSE IF t.s = K_None THEN PR("ok", [n |-> "nonelit"], p + 1)
        ELSE PR("ok", [n |-> "name", id |-> t.s], p + 1)
    ELSE IF t.k = "num" THEN PR("ok", [n |-> "num", v |-> IntOf(t.s)], p + 1)
    ELSE IF t.k = "str" THEN
        IF p < Len(ts) /\ ts[p + 1].k = "str"
        THEN PR("unm", NoAst, p)                   \* 'a' 'b' concatenates
        ELSE PR("ok", [n |-> "str", v |-> t.s], p + 1)
    ELSE PR("unm", NoAst, p)       \* parentheses, tuples, unary operators

\* The call node(a), a the parse of the argument: the ")" and what follows.
CallWithArg(ts, node, a) ==
    IF a.st # "ok" THEN a
    ELSE IF a.pos > Len(ts) THEN PR("syntax", NoAst, a.pos)  \* '(' never closed
    ELSE IF IsOp(ts, a.pos, <<")">>)
    THEN ParseTrailers(ts, [n |-> "call", f |-> node, args |-> <<a.ast>>], a.pos + 1)
    ELSE PR("unm", NoAst, a.pos)                   \* more than one argument

\* The calls and attribute accesses that follow the primary `node`.
ParseTrailers(ts, node, p) ==
    IF IsOp(ts, p, <<"(">>) THEN
        IF IsOp(ts, p + 1, <<")">>)
        THEN ParseTrailers(ts, [n |-> "call", f |-> node, args |-> <<>>], p + 2)
        ELSE CallWithArg(ts, node, ParseExpr(ts, p + 1))
    ELSE IF IsOp(ts, p, <<".">>) THEN
        IF p + 1 > Len(ts) THEN PR("syntax", NoAst, p + 1)
        ELSE IF ts[p + 1].k = "name" /\ ts[p + 1].s \notin Keywords
                /\ ts[p + 1].s \notin {K_True, K_False, K_None}
        THEN ParseTrailers(ts, [n |-> "attr", obj |-> node, id |-> ts[p + 1].s],
                           p + 2)
        ELSE PR("unm", NoAst, p + 1)
    ELSE PR("ok", node, p)

TrailersAfter(ts, a) ==
    IF a.st # "ok" THEN a ELSE ParseTrailers(ts, a.ast, a.pos)

ParsePrimary(ts, p) == TrailersAfter(ts, ParseAtom(ts, p))

AddRight(ts, left, r) ==
    IF r.st # "ok" THEN r
    ELSE ParseArithRest(ts, [n |-> "add", l |-> left, r |-> r.ast], r.pos)

ParseArithRest(ts, left, p) ==
    IF IsOp(ts, p, <<"+">>) THEN AddRight(ts, left, ParsePrimary(ts, p + 1))
    ELSE PR("ok", left, p)

ArithAfter(ts, l) ==
    IF l.st # "ok" THEN l ELSE ParseArithRest(ts, l.ast, l.pos)

ParseArith(ts, p) == ArithAfter(ts, ParsePrimary(ts, p))

EqRight(ts, l, r) ==
    IF r.st # "ok" THEN r
    ELSE IF IsOp(ts, r.pos, <<"=", "=">>) THEN PR("unm", NoAst, r.pos) \* a == b == c
    ELSE PR("ok", [n |-> "eq", l |-> l.ast, r |-> r.ast], r.pos)

EqAfter(ts, l) ==
    IF l.st # "ok" THEN l
    ELSE IF IsOp(ts, l.pos, <<"=", "=">>) THEN EqRight(ts, l, ParseArith(ts, l.pos + 1))
    ELSE l

ParseExpr(ts, p) == EqAfter(ts, ParseArith(ts, p))

WholeSource(ts, r) ==
    IF r.st # "ok" THEN r
    ELSE IF r.pos <= Len(ts) THEN PR("unm", NoAst, r.pos)
    ELSE r

ParseTokens(ts) ==
    IF \E i \in 1..Len(ts) : ts[i].k = "unm" THEN PR("unm", NoAst, 0)
    ELSE IF \E i \in 1..Len(ts) : ts[i].k = "err" THEN PR("syntax", NoAst, 0)
    ELSE WholeSource(ts, ParseExpr(ts, 1))

\* compile(source, '<string>', 'eval') for the sublanguage.
Parse(source) == ParseTokens(Tokenize(source, 1))

(***************************************************************************)
(* eval(): values and outcomes.  A value is [t, v]; an outcome is          *)
(* [kind, val, exc, env]: kind is "value", "raise" (exc names the          *)
(* exception's class) or "unm"; env is os.environ after the evaluation.    *)
(***************************************************************************)
VInt(i) == [t |-> "int", v |-> i]
VBool(b) == [t |-> "bool", v |-> b]
VStr(s) == [t |-> "str", v |-> s]
VTuple(s) == [t |-> "tuple", v |-> s]
VFunc(f) == [t |-> "func", v |-> f]
VNone == [t |-> "none", v |-> 0]
VEnviron == [t |-> "environ", v |-> 0]       \* the os.environ object itself
VBuiltinsDict == [t |-> "dict", v |-> 0]     \* the (non-empty) builtins dict

Val(v, env) == [kind |-> "value", val |-> v, exc |-> "none", env |-> env]
Raise(e, env) == [kind |-> "raise", val |-> VNone, exc |-> e, env |-> env]
Unm(env) == [kind |-> "unm", val |-> VNone, exc |-> "none", env |-> env]

\* Classes that derive from BaseException and not from Exception.
BaseOnlyExceptions == {"SystemExit", "KeyboardInterrupt", "GeneratorExit"}
\* isinstance(e, Exception)
IsException(e) == e \notin BaseOnlyExceptions
\* isinstance(e, ImportError)
IsImportError(e) == e \in {"ImportError", "ModuleNotFoundError"}

EmptyEnviron == [k \in {} |-> ""]

IsNumeric(a) == a.t \in {"int", "bool"}
NumOf(a) == IF a.t = "int" THEN a.v ELSE IF a.v THEN 1 ELSE 0

\* bool(value)
Truth(a, env) ==
    CASE a.t = "int" -> a.v # 0
      [] a.t = "bool" -> a.v
      [] a.t = "str" -> a.v # <<>>
      [] a.t = "tuple" -> a.v # <<>>
      [] a.t = "none" -> FALSE
      [] a.t = "func" -> TRUE
      [] a.t = "dict" -> TRUE
      [] a.t = "environ" -> DOMAIN env # {}

\* a == b
PyEq(a, b) ==
    IF IsNumeric(a) /\ IsNumeric(b) THEN NumOf(a) = NumOf(b)
    ELSE IF a.t # b.t THEN FALSE
    ELSE IF a.t \in {"none", "environ", "dict"} THEN TRUE
    ELSE a.v = b.v

\* a + b
PyAdd(a, b, env) ==
    IF IsNumeric(a) /\ IsNumeric(b) THEN Val(VInt(NumOf(a) + NumOf(b)), env)
    ELSE IF a.t = b.t /\ a.t = "str" THEN Val(VStr(a.v \o b.v), env)
    ELSE IF a.t = b.t /\ a.t = "tuple" THEN Val(VTuple(a.v \o b.v), env)
    ELSE Raise("TypeError", env)

(***************************************************************************)
(* The interpreter and its surroundings: one representative world.         *)
(***************************************************************************)
N_sys_version_info ==
    <<"s", "y", "s", "_", "v", "e", "r", "s", "i", "o", "n", "_", "i", "n", "f", "o">>
N_os_name == <<"o", "s", "_", "n", "a", "m", "e">>
N_os_environ == <<"o", "s", "_", "e", "n", "v", "i", "r", "o", "n">>
N_platform_system ==
    <<"p", "l", "a", "t", "f", "o", "r", "m", "_", "s", "y", "s", "t", "e", "m">>
N_platform_release ==
    <<"p", "l", "a", "t", "f", "o", "r", "m", "_", "r", "e", "l", "e", "a", "s", "e">>
N_is_installed == <<"i", "s", "_", "i", "n", "s", "t", "a", "l", "l", "e", "d">>
N_package_version ==
    <<"p", "a", "c", "k", "a", "g", "e", "_", "v", "e", "r", "s", "i", "o", "n">>
N_builtins == <<"_", "_", "b", "u", "i", "l", "t", "i", "n", "s", "_", "_">>
N_len == <<"l", "e", "n">>
N_exit == <<"e", "x", "i", "t">>
N_clear == <<"c", "l", "e", "a", "r">>
N_sys == <<"s", "y", "s">>
N_os == <<"o", "s">>
N_version == <<"v", "e", "r", "s", "i", "o", "n">>
N_nopkg == <<"n", "o", "p", "k", "g">>
N_pkg == <<"p", "k", "g">>

\* Modules that import, distributions that are installed (with the release
\* of their version), and names known to be neither.
ImportableModules == {N_os, N_sys, N_pkg}
InstalledRelease == (N_pkg :> <<2, 10, 1>>)
AbsentPackages == {N_nopkg}

\* The builtins module, as far as the model goes: len, and the exit that
\* site adds.
Builtins == (N_len :> VFunc("len")) @@ (N_exit :> VFunc("exit"))

\* Names bound at the plugin's module level that are neither in the dict
\* handed to eval nor built in.
ModuleLevelNames ==
    {N_sys, N_os, N_version,
     <<"p", "l", "a", "t", "f", "o", "r", "m">>,
     <<"_", "i", "s", "_", "i", "n", "s", "t", "a", "l", "l", "e", "d">>}

\* __import__(package)
Import(package) ==
    IF package.t # "str" THEN "TypeError"
    ELSE IF package.v = <<>> THEN "ValueError"        \* Empty module name
    ELSE IF package.v \in ImportableModules THEN "ok"
    ELSE IF package.v \in AbsentPackages THEN "ModuleNotFoundError"
    ELSE "unm"

_is_installed(package, env) ==
    LET r == Import(package) IN
    IF r = "unm" THEN Unm(env)
    ELSE IF r = "ok" THEN Val(VBool(TRUE), env)
    ELSE IF IsImportError(r) THEN Val(VBool(FALSE), env)
    ELSE Raise(r, env)

_package_version(package, env) ==
    IF package.t # "str" THEN Unm(env)
    ELSE IF package.v \in DOMAIN InstalledRelease
    THEN Val(VTuple(InstalledRelease[package.v]), env)
    ELSE IF package.v \in AbsentPackages THEN Raise("DistributionNotFound", env)
    ELSE Unm(env)

\* len(x)
PyLen(args, env) ==
    IF Len(args) # 1 THEN Raise("TypeError", env)
    ELSE IF args[1].t \in {"str", "tuple"} THEN Val(VInt(Len(args[1].v)), env)
    ELSE IF args[1].t = "environ" THEN Val(VInt(Cardinality(DOMAIN env)), env)
    ELSE IF args[1].t = "dict" THEN Unm(env)
    ELSE Raise("TypeError", env)

\* f(*args)
PyCall(f, args, env) ==
    IF f.t \in {"int", "bool", "str", "tuple", "none", "environ", "dict"}
    THEN Raise("TypeError", env)                       \* not callable
    ELSE IF f.v = "is_installed" THEN
        IF Len(args) # 1 THEN Raise("TypeError", env)
        ELSE _is_installed(args[1], env)
    ELSE IF f.v = "package_version" THEN
        IF Len(args) # 1 THEN Raise("TypeError", env)
        ELSE _package_version(args[1], env)
    ELSE IF f.v = "len" THEN PyLen(args, env)
    ELSE IF f.v = "exit" THEN Raise("SystemExit", env)
    ELSE IF f.v = "environ.clear" THEN
        IF args # <<>> THEN Raise("TypeError", env)
        ELSE Val(VNone, EmptyEnviron)          \* os.environ itself is emptied
    ELSE Unm(env)

\* getattr(obj, id)
PyGetAttr(obj, id, env) ==
    IF obj.t = "environ" /\ id = N_clear THEN Val(VFunc("environ.clear"), env)
    ELSE Unm(env)

(***************************************************************************)
(* eval(source, globals)                                                   *)
(***************************************************************************)
\* The dict literal _should_be_applied hands to eval.
EvalGlobals ==
    (N_sys_version_info :> VTuple(<<3, 8, 0>>))
    @@ (N_os_name :> VStr(<<"p", "o", "s", "i", "x">>))
    @@ (N_os_environ :> VEnviron)
    @@ (N_platform_system :> VStr(<<"L", "i", "n", "u", "x">>))
    @@ (N_platform_release :> VStr(<<"5">>))
    @@ (N_is_installed :> VFunc("is_installed"))
    @@ (N_package_version :> VFunc("package_version"))

\* eval adds the key __builtins__ to a globals dict that has none.
WithBuiltins(globals) ==
    IF N_builtins \in DOMAIN globals THEN globals
    ELSE globals @@ (N_builtins :> VBuiltinsDict)

\* Faulty variant: the globals alone, no built-ins behind them.
LookupName_globalsOnly(id, globals, env) ==
    IF id \in DOMAIN globals /\ id # N_builtins THEN Val(globals[id], env)
    ELSE Raise("NameError", env)

\* A name is looked up in the globals, then in the builtins.
LookupName(id, globals, env) ==
    IF id \in DOMAIN globals THEN Val(globals[id], env)
    ELSE IF N_builtins \in DOMAIN globals /\ id \in DOMAIN Builtins
    THEN Val(Builtins[id], env)
    ELSE IF id \in ModuleLevelNames THEN Raise("NameError", env)
    ELSE Unm(env)

RECURSIVE Ev(_, _, _)

\* obj.id, o the outcome of obj
AttrOf(ast, o) ==
    IF o.kind # "value" THEN o ELSE PyGetAttr(o.val, ast.id, o.env)

\* f(a), a the outcome of the argument
CallArg(f, a) ==
    IF a.kind # "value" THEN a ELSE PyCall(f.val, <<a.val>>, a.env)

\* f(...), f the outcome of the callee: then the argument, then the call
CallOf(ast, globals, f) ==
    IF f.kind # "value" THEN f
    ELSE IF ast.args = <<>> THEN PyCall(f.val, <<>>, f.env)
    ELSE CallArg(f, Ev(ast.args[1], globals, f.env))

BinRight(ast, l, r) ==
    IF r.kind # "value" THEN r
    ELSE IF ast.n = "eq" THEN Val(VBool(PyEq(l.val, r.val)), r.env)
    ELSE PyAdd(l.val, r.val, r.env)

\* l == r, l + r: the left operand first
BinLeft(ast, globals, l) ==
    IF l.kind # "value" THEN l
    ELSE BinRight(ast, l, Ev(ast.r, globals, l.env))

Ev(ast, globals, env) ==
    CASE ast.n = "num" -> Val(VInt(ast.v), env)
      [] ast.n = "bool" -> Val(VBool(ast.v), env)
      [] ast.n = "str" -> Val(VStr(ast.v), env)
      [] ast.n = "nonelit" -> Val(VNone, env)
      [] ast.n = "name" -> LookupName(ast.id, globals, env)
      [] ast.n = "attr" -> AttrOf(ast, Ev(ast.obj, globals, env))
      [] ast.n = "call" -> CallOf(ast, globals, Ev(ast.f, globals, env))
      [] ast.n \in {"eq", "add"} -> BinLeft(ast, globals, Ev(ast.l, globals, env))

EvalParsed(p, globals, env) ==
    IF p.st = "syntax" THEN Raise("SyntaxError", env)
    ELSE IF p.st = "unm" THEN Unm(env)
    ELSE Ev(p.ast, WithBuiltins(globals), env)

PyEval(source, globals, env) == EvalParsed(Parse(source), globals, env)

(***************************************************************************)
(* _PythonVersionExclusionPlugin                                           *)
(***************************************************************************)
\* Faulty variant: except ImportError:
Catches_ImportErrorOnly(e) == IsImportError(e)

\* except Exception:
Catches(e) == IsException(e)

\* The try statement around eval: r is eval's outcome.
TryExcept(r) ==
    IF r.kind = "raise" /\ Catches(r.exc)
    THEN [kind |-> "value", val |-> VBool(FALSE), exc |-> r.exc,
          env |-> r.env, printed |-> TRUE]
    ELSE [kind |-> r.kind, val |-> r.val, exc |-> r.exc,
          env |-> r.env, printed |-> FALSE]

\* _should_be_applied(code): eval's outcome, or False (and a traceback on
\* stdout, here `printed`) for an exception the except clause catches.
_should_be_applied(code, env) == TryExcept(PyEval(code, EvalGlobals, env))

\* Faulty variants: a marker already listed is not appended; the marker is
\* inserted in front; the appended list is never written.
_ignore_marker_dedup(config, marker) ==
    IF \E i \in 1..Len(config.exclude_lines) : config.exclude_lines[i] = marker
    THEN config
    ELSE [config EXCEPT !.exclude_lines = Append(config.exclude_lines, marker)]

_ignore_marker_insert0(config, marker) ==
    [config EXCEPT !.exclude_lines = <<marker>> \o config.exclude_lines]

_ignore_marker_noWrite(config, marker) == config

\* _ignore_marker(config, marker): get_option, append, set_option.
_ignore_marker(config, marker) ==
    LET exclude_lines == config.exclude_lines
        appended == Append(exclude_lines, marker)
    IN  [config EXCEPT !.exclude_lines = appended]

\* code, marker = parts
Unpack2(parts) ==
    IF Len(parts) = 2
    THEN [raises |-> FALSE, code |-> Strip(parts[1]), marker |-> Strip(parts[2])]
    ELSE [raises |-> TRUE, code |-> <<>>, marker |-> <<>>]   \* ValueError

\* Faulty variant, as rule.rpartition(':') would give the parts: ('', '', rule)
\* without a colon, and nothing raised.
Unpack_rpartition(parts) ==
    IF Len(parts) = 2
    THEN [raises |-> FALSE, code |-> Strip(parts[1]), marker |-> Strip(parts[2])]
    ELSE [raises |-> FALSE, code |-> <<>>, marker |-> Strip(parts[1])]

SplitRule_rpartition(rule) == Unpack_rpartition(RSplit(rule))

\* code, marker = [part.strip() for part in rule.rsplit(':', 1)]
\* Unpacking a list of one element raises ValueError.
SplitRule(rule) == Unpack2(RSplit(rule))

\* The if statement of _process_rule: r is what _should_be_applied gave for
\* `code`.  The result is [config, env, raised, evaluated, exc, printed,
\* truth, code, marker]: raised is the class of the exception that leaves
\* _process_rule ("none" when it returns), exc the class of the one eval
\* raised.
IfApplied(config, code, marker, r) ==
    LET truth == r.kind = "value" /\ Truth(r.val, r.env)
    IN  [config |-> IF truth THEN _ignore_marker(config, marker) ELSE config,
         env |-> r.env,
         raised |-> IF r.kind = "raise" THEN r.exc
                    ELSE IF r.kind = "unm" THEN "unmodelled" ELSE "none",
         evaluated |-> TRUE, exc |-> r.exc, printed |-> r.printed,
         truth |-> truth, code |-> code, marker |-> marker]

ProcessSplit(config, env, sp) ==
    IF sp.raises
    THEN [config |-> config, env |-> env, raised |-> "ValueError",
          evaluated |-> FALSE, exc |-> "none", printed |-> FALSE,
          truth |-> FALSE, code |-> <<>>, marker |-> <<>>]
    ELSE IfApplied(config, Slice_1_m1(sp.code), sp.marker,
                   _should_be_applied(Slice_1_m1(sp.code), env))

\* _process_rule(config, rule) as a function of the configuration and of
\* os.environ.
_process_rule(config, env, rule) == ProcessSplit(config, env, SplitRule(rule))

(***************************************************************************)
(* The state machine: one run of configure(config).                        *)
(***************************************************************************)
VARIABLES
    config,      \* the host's options: rules (text) and exclude_lines (list)
    osEnviron,   \* os.environ of the process
    pc,          \* "start", "loop", "done" or "raised"
    rules,       \* what the iterator `rules` has yet to yield
    raised,      \* the class of the exception that left configure, or "none"
    stdout,      \* the exception classes whose tracebacks were printed
    trace,       \* history: one entry per rule _should_be_applied was called for
    initial      \* history: exclude_lines and os.environ when configure began

vars == <<config, osEnviron, pc, rules, raised, stdout, trace, initial>>

\* configure, up to the loop: rules = filter(bool, text.splitlines())
Configure ==
    /\ pc = "start"
    /\ rules' = FilterBool(SplitLines(config.rules))
    /\ pc' = "loop"
    /\ UNCHANGED <<config, osEnviron, raised, stdout, trace, initial>>

\* The effect of one iteration on the state: r is what _process_rule did.
Iteration(rule, r) ==
    /\ rules' = Tail(rules)
    /\ config' = r.config
    /\ osEnviron' = r.env
    /\ raised' = r.raised
    /\ pc' = IF r.raised = "none" THEN "loop" ELSE "raised"
    /\ stdout' = IF r.printed THEN Append(stdout, r.exc) ELSE stdout
    /\ trace' = IF r.evaluated
                THEN Append(trace,
                         [rule |-> rule, code |-> r.code, marker |-> r.marker,
                          exc |-> r.exc, caught |-> r.printed,
                          truth |-> r.truth,
                          before |-> config.exclude_lines,
                          after |-> r.config.exclude_lines,
                          envBefore |-> osEnviron])
                ELSE trace
    /\ UNCHANGED initial

\* One iteration of the loop: self._process_rule(config, rule)
ProcessRule ==
    /\ pc = "loop"
    /\ rules # <<>>
    /\ Iteration(Head(rules), _process_rule(config, osEnviron, Head(rules)))

\* The iterator is exhausted: configure returns.
Return ==
    /\ pc = "loop"
    /\ rules = <<>>
    /\ pc' = "done"
    /\ UNCHANGED <<config, osEnviron, rules, raised, stdout, trace, initial>>

Next == Configure \/ ProcessRule \/ Return

(***************************************************************************)
(* The rule lines the model draws its rules texts from.                     *)
(***************************************************************************)
\* "1 == 1": foo   -- true
R_true ==
    <<"\"", "1", " ", "=", "=", " ", "1", "\"", ":", " ", "f", "o", "o">>
\* "2 == 2": foo   -- true, with the marker of R_true
R_true2 ==
    <<"\"", "2", " ", "=", "=", " ", "2", "\"", ":", " ", "f", "o", "o">>
\* "1 == 2": bar   -- false
R_false ==
    <<"\"", "1", " ", "=", "=", " ", "2", "\"", ":", " ", "b", "a", "r">>
\* "1 +": baz   -- SyntaxError
R_syntax ==
    <<"\"", "1", " ", "+", "\"", ":", " ", "b", "a", "z">>
\* "broken rule"   -- no colon
R_broken ==
    <<"\"", "b", "r", "o", "k", "e", "n", " ", "r", "u", "l", "e", "\"">>
\* (an empty line)
R_empty ==
    <<>>
\* (a line of one space)
R_blank ==
    <<" ">>
\* "exit()": ex   -- raises SystemExit
R_exit ==
    <<"\"", "e", "x", "i", "t", "(", ")", "\"", ":", " ", "e", "x">>
\* "len": ln   -- a built-in name
R_len ==
    <<"\"", "l", "e", "n", "\"", ":", " ", "l", "n">>
\* "sys": sy   -- a module-level name of the plugin
R_sys ==
    <<"\"", "s", "y", "s", "\"", ":", " ", "s", "y">>
\* "is_installed('')": ie   -- __import__('') raises ValueError
R_inst_empty ==
    <<"\"", "i", "s", "_", "i", "n", "s", "t", "a", "l", "l", "e", "d", "(", "'", "'", ")", "\"", ":", " ", "i", "e">>
\* "is_installed('nopkg')": in   -- not installed
R_inst_nopkg ==
    <<"\"", "i", "s", "_", "i", "n", "s", "t", "a", "l", "l", "e", "d", "(", "'", "n", "o", "p", "k", "g", "'", ")", "\"", ":", " ", "i", "n">>
\* "is_installed('os')": io   -- installed
R_inst_os ==
    <<"\"", "i", "s", "_", "i", "n", "s", "t", "a", "l", "l", "e", "d", "(", "'", "o", "s", "'", ")", "\"", ":", " ", "i", "o">>
\* "package_version('nopkg')": vn   -- raises DistributionNotFound
R_ver_nopkg ==
    <<"\"", "p", "a", "c", "k", "a", "g", "e", "_", "v", "e", "r", "s", "i", "o", "n", "(", "'", "n", "o", "p", "k", "g", "'", ")", "\"", ":", " ", "v", "n">>
\* "package_version('pkg')": vp   -- a non-empty tuple
R_ver_pkg ==
    <<"\"", "p", "a", "c", "k", "a", "g", "e", "_", "v", "e", "r", "s", "i", "o", "n", "(", "'", "p", "k", "g", "'", ")", "\"", ":", " ", "v", "p">>
\* "os_name": on   -- one of the seven bindings
R_os_name ==
    <<"\"", "o", "s", "_", "n", "a", "m", "e", "\"", ":", " ", "o", "n">>
\* "os_environ.clear()": cl   -- empties os.environ, returns None
R_clear ==
    <<"\"", "o", "s", "_", "e", "n", "v", "i", "r", "o", "n", ".", "c", "l", "e", "a", "r", "(", ")", "\"", ":", " ", "c", "l">>
\* "os_environ": en   -- true iff os.environ is not empty
R_env ==
    <<"\"", "o", "s", "_", "e", "n", "v", "i", "r", "o", "n", "\"", ":", " ", "e", "n">>
\*  "'a:b' == 'a:b'" :  foo    -- a colon inside the expression, spaces around the parts
R_colon ==
    <<" ", "\"", "'", "a", ":", "b", "'", " ", "=", "=", " ", "'", "a", ":", "b", "'", "\"", " ", ":", " ", " ", "f", "o", "o", " ">>
\* a: sh   -- an expression part of one character
R_short ==
    <<"a", ":", " ", "s", "h">>
\* : no   -- an empty expression part
R_none ==
    <<":", " ", "n", "o">>
\* "": tw   -- an expression part of two characters
R_two ==
    <<"\"", "\"", ":", " ", "t", "w">>
\* x1 == 1y: uq   -- no quotes: the first and last characters are lost
R_unquoted ==
    <<"x", "1", " ", "=", "=", " ", "1", "y", ":", " ", "u", "q">>
\* "1 == 1":   -- an empty marker
R_nomarker ==
    <<"\"", "1", " ", "=", "=", " ", "1", "\"", ":">>
\* "__builtins__": bi   -- the key eval adds to the globals
R_builtins ==
    <<"\"", "_", "_", "b", "u", "i", "l", "t", "i", "n", "s", "_", "_", "\"", ":", " ", "b", "i">>
\* "version": ve   -- a module-level name of the plugin
R_version ==
    <<"\"", "v", "e", "r", "s", "i", "o", "n", "\"", ":", " ", "v", "e">>

CoreLines ==
    {R_true, R_true2, R_false, R_syntax, R_broken, R_empty, R_blank, R_exit,
     R_clear, R_env}
NameLines ==
    {R_len, R_sys, R_os_name, R_inst_empty, R_inst_nopkg, R_inst_os,
     R_ver_nopkg, R_ver_pkg, R_builtins, R_version}
EnvLines == {R_clear, R_env, R_true, R_false}
ParseLines ==
    {R_colon, R_short, R_none, R_two, R_unquoted, R_nomarker, R_true, R_broken,
     R_blank}

\* '\n'.join(lines)
RECURSIVE JoinLines(_)
JoinLines(ls) ==
    IF ls = <<>> THEN <<>>
    ELSE IF Len(ls) = 1 THEN ls[1]
    ELSE ls[1] \o <<NL>> \o JoinLines(Tail(ls))

\* The rules texts of at most MaxRules lines drawn from `catalog`.
TextsOf(catalog) ==
    UNION {{JoinLines(ls) : ls \in [1..n -> catalog]} : n \in 0..MaxRules}

M_foo == <<"f", "o", "o">>
M_pragma == <<"p", "r", "a", "g", "m", "a">>
\* report:exclude_lines before configure runs.
InitialLists == {<<>>, <<M_pragma, M_foo>>}
InitialEnvirons == {("CI" :> "1"), EmptyEnviron}

InitWith(catalog, lists, environs) ==
    /\ config \in [rules : TextsOf(catalog), exclude_lines : lists]
    /\ osEnviron \in environs
    /\ pc = "start"
    /\ rules = <<>>
    /\ raised = "none"
    /\ stdout = <<>>
    /\ trace = <<>>
    /\ initial = [exclude_lines |-> config.exclude_lines, environ |-> osEnviron]

Init == InitWith(CoreLines, InitialLists, {("CI" :> "1")})
Spec == Init /\ [][Next]_vars

InitNames == InitWith(NameLines, {<<>>}, {("CI" :> "1")})
SpecNames == InitNames /\ [][Next]_vars

InitEnv == InitWith(EnvLines, {<<>>}, InitialEnvirons)
SpecEnv == InitEnv /\ [][Next]_vars

InitParse == InitWith(ParseLines, {<<>>}, {("CI" :> "1")})
SpecParse == InitParse /\ [][Next]_vars

\* Every evaluation of the model stays inside the modelled sublanguage.
Modelled == raised # "unmodelled"

(***************************************************************************)
(* Reference definitions the properties are stated with: the parts of a    *)
(* rule line by position, independent of rsplit, strip and the slice.      *)
(***************************************************************************)
\* The non-empty lines of the rules text, in order.
Lines == FilterBool(SplitLines(config.rules))
\* How many of them the loop has taken so far.
Consumed == IF pc = "start" THEN 0 ELSE Len(Lines) - Len(rules)

NoColon(line) == \A i \in 1..Len(line) : line[i] # ":"
LastColon(line) ==
    CHOOSE k \in 1..Len(line) :
        line[k] = ":" /\ \A j \in (k + 1)..Len(line) : line[j] # ":"

SetMin(S) == CHOOSE x \in S : \A y \in S : x <= y
SetMax(S) == CHOOSE x \in S : \A y \in S : y <= x
Trimmed(s) ==
    LET ink == {i \in 1..Len(s) : s[i] \notin Whitespace}
    IN  IF ink = {} THEN <<>> ELSE SubSeq(s, SetMin(ink), SetMax(ink))

\* Of a line with a colon: the text after the rightmost colon, trimmed.
MarkerOf(line) == Trimmed(SubSeq(line, LastColon(line) + 1, Len(line)))
\* Of a line with a colon: the text before the rightmost colon, trimmed.
ExprPartOf(line) == Trimmed(SubSeq(line, 1, LastColon(line) - 1))
\* The expression part without its first and its last character.
ExprOf(line) ==
    LET part == ExprPartOf(line)
    IN  [i \in 1..(IF Len(part) < 2 THEN 0 ELSE Len(part) - 2) |-> part[i + 1]]

IsPrefix(s, t) == Len(s) <= Len(t) /\ SubSeq(t, 1, Len(s)) = s

\* Whether the rule of trace entry e is true: its expression, evaluated in
\* the environment the rule found, gives a value that is true.
IsTrue(r) == r.kind = "value" /\ Truth(r.val, r.env)
RuleIsTrue(e) == IsTrue(PyEval(ExprOf(e.rule), EvalGlobals, e.envBefore))

\* The markers of the true rules of a trace, in the order of the trace.
RECURSIVE TrueMarkers(_)
TrueMarkers(tr) ==
    IF tr = <<>> THEN <<>>
    ELSE (IF RuleIsTrue(Head(tr)) THEN <<MarkerOf(Head(tr).rule)>> ELSE <<>>)
         \o TrueMarkers(Tail(tr))

\* The trace holds the first n lines, in order.
TraceIsFirst(n) ==
    Len(trace) = n /\ \A i \in 1..n : trace[i].rule = Lines[i]

\* Trace entry i is where configure stopped.
StoppedAt(i) == pc = "raised" /\ Len(trace) = i /\ Consumed = i

C2_AppendOnly ==
    /\ IsPrefix(initial.exclude_lines, config.exclude_lines)
    /\ \A i \in 1..Len(trace) : IsPrefix(trace[i].before, trace[i].after)

\* A run that ended in a parse failure after appending to a non-empty list.
C2_Witness ==
    /\ pc = "raised"
    /\ raised = "ValueError"
    /\ initial.exclude_lines # <<>>
    /\ Len(config.exclude_lines) > Len(initial.exclude_lines)

C4_NoColonIsFatal ==
    \A k \in 1..Len(Lines) :
        NoColon(Lines[k])
        => /\ Len(trace) < k
           /\ Len(config.exclude_lines) < Len(initial.exclude_lines) + k
           /\ pc # "done"
           /\ Consumed <= k
           /\ Consumed = k => (pc = "raised" /\ raised = "ValueError")

\* The second of three lines has no colon: one rule evaluated, one line left.
C4_Witness ==
    /\ pc = "raised"
    /\ raised = "ValueError"
    /\ Len(Lines) = 3
    /\ NoColon(Lines[2])
    /\ Len(trace) = 1
    /\ Len(rules) = 1

NotBlank(line) == Trimmed(line) # <<>>

\* The loop of configure over `lines`: [exclude_lines, raised] at its end.
RECURSIVE RunLoop(_, _, _)
RunOn(lines, r) ==
    IF r.raised # "none"
    THEN [exclude_lines |-> r.config.exclude_lines, raised |-> r.raised]
    ELSE RunLoop(Tail(lines), r.config, r.env)

RunLoop(lines, cfg, env) ==
    IF lines = <<>> THEN [exclude_lines |-> cfg.exclude_lines, raised |-> "none"]
    ELSE RunOn(lines, _process_rule(cfg, env, Head(lines)))

(***************************************************************************)
(* C5, as stated: blank lines (empty, or of whitespace only) are skipped:  *)
(* the run ends as a run over the text without them ends, with the same    *)
(* exclude_lines and the same exception or none.                           *)
(***************************************************************************)
C5_BlankLinesAreSkipped ==
    pc \in {"done", "raised"}
    => [exclude_lines |-> config.exclude_lines, raised |-> raised]
       = RunLoop(SelectSeq(SplitLines(config.rules), NotBlank),
                 [config EXCEPT !.exclude_lines = initial.exclude_lines],
                 initial.environ)

(***************************************************************************)
(* C6, as stated: rules are independent: each rule's outcome is the one it *)
(* has alone, in the environment configure started with, whatever rules    *)
(* precede it.                                                             *)
(***************************************************************************)
C6_RulesAreIndependent ==
    \A i \in 1..Len(trace) :
        trace[i].truth
        = _process_rule([config EXCEPT !.exclude_lines = <<>>],
                        initial.environ, trace[i].rule).truth

IsCallNode(p, name) ==
    /\ p.st = "ok"
    /\ p.ast.n = "call"
    /\ p.ast.f.n = "name"
    /\ p.ast.f.id = name

IsCallOf(code, name) == IsCallNode(Parse(code), name)

(***************************************************************************)
(* C7, as stated: is_installed never raises: no rule whose expression is a *)
(* call of is_installed ends with an exception raised in it.               *)
(***************************************************************************)
C7_IsInstalledNeverRaises ==
    \A i \in 1..Len(trace) :
        IsCallOf(trace[i].code, N_is_installed) => trace[i].exc = "none"

SevenNames ==
    {N_sys_version_info, N_os_name, N_os_environ, N_platform_system,
     N_platform_release, N_is_installed, N_package_version}

IsBareName(code) ==
    /\ code # <<>>
    /\ code[1] \in NameStart
    /\ \A i \in 1..Len(code) : code[i] \in NameChars
    /\ code \notin Keywords \cup {K_True, K_False, K_None}

C9_SplitAtRightmostColon ==
    \A i \in 1..Len(trace) :
        LET e == trace[i] IN
        /\ e.marker = MarkerOf(e.rule)
        /\ e.code = ExprOf(e.rule)
        /\ e.truth => e.after = Append(e.before, MarkerOf(e.rule))
        /\ Len(ExprPartOf(e.rule)) < 2
           => (e.code = <<>> /\ ~e.truth /\ e.caught /\ ~StoppedAt(i))

\* A rule with a colon inside its expression applied its marker, after a
\* rule whose expression part is one character.
C9_Witness ==
    /\ pc = "done"
    /\ Len(trace) = 2
    /\ trace[1].rule = R_short
    /\ trace[1].code = <<>>
    /\ trace[2].rule = R_colon
    /\ trace[2].truth
    /\ config.exclude_lines = <<M_foo>>

(***************************************************************************)
(* C10.  A parse failure is not atomic: when the k-th non-empty line has   *)
(* no colon and configure raises there, exclude_lines is the initial list  *)
(* followed by the markers of the true rules among lines 1..k-1, already   *)
(* written to the configuration, and by nothing of line k or later.        *)
(***************************************************************************)
C10_ParseFailureKeepsEarlierMarkers ==
    (pc = "raised" /\ raised = "ValueError")
    => /\ Consumed >= 1
       /\ NoColon(Lines[Consumed])
       /\ TraceIsFirst(Consumed - 1)
       /\ config.exclude_lines = initial.exclude_lines \o TrueMarkers(trace)

\* A true rule, then a line without a colon, then a true rule never reached.
C10_Witness ==
    /\ pc = "raised"
    /\ raised = "ValueError"
    /\ Lines = <<R_true, R_broken, R_true2>>
    /\ config.exclude_lines = initial.exclude_lines \o <<M_foo>>

=============================================================================
